---- MODULE Spec2Model ----
(***************************************************************************)
(* Feishu webhook integration of moltworker (src/src/routes/feishu.ts):    *)
(* the webhook handler, the file stager downloadAndSaveFeishuFile and the  *)
(* pipeline processPdfAndReply, over an R2 bucket, the Feishu chat and     *)
(* document APIs and the DashScope understanding service.                  *)
(*                                                                         *)
(* Strings whose characters the code inspects (object keys, file names,    *)
(* conversation ids, message texts) are sequences of one-character         *)
(* strings.  Every await of the code is one atomic step of a task; the     *)
(* outcome of the awaited external call is an input of the step.           *)
(***************************************************************************)
EXTENDS Integers, Sequences, FiniteSets, TLC

\* ------------------------------------------------------------------ bounds
MaxEvents == 3      \* webhook deliveries in one behaviour
MaxStagers == 2     \* staging tasks dispatched in one behaviour
MaxRuns == 1        \* pipeline runs dispatched in one behaviour
MaxTime == 2        \* last value of the millisecond clock (it starts at 1)

\* --------------------------------------------------------------- characters
\* The characters the model uses, in code-point order ('.' < '/' < digits <
\* upper case < '_' < lower case): the order of R2's listing.
Ascii ==
  << " ", ".", "/", "0", "1", "2", "3", "4", "5", "6", "7", "8", "9",
     "A", "B", "D", "F", "P", "_", "a", "b", "c", "d", "e", "f", "g", "h",
     "i", "j", "k", "l", "m", "n", "o", "p", "q", "r", "s", "t", "u", "v",
     "w", "x", "y", "z" >>

CodeOf(c) == CHOOSE i \in 1..Len(Ascii) : Ascii[i] = c

\* String.prototype.toLowerCase, one character.
LowerChar(c) ==
  CASE c = "A" -> "a" [] c = "B" -> "b" [] c = "D" -> "d"
    [] c = "F" -> "f" [] c = "P" -> "p" [] OTHER -> c

toLowerCase(s) == [i \in 1..Len(s) |-> LowerChar(s[i])]

startsWith(s, p) == Len(s) >= Len(p) /\ SubSeq(s, 1, Len(p)) = p

endsWith(s, p) == Len(s) >= Len(p) /\ SubSeq(s, Len(s) - Len(p) + 1, Len(s)) = p

\* String.prototype.includes
includes(s, p) == \E i \in 0..(Len(s) - Len(p)) : SubSeq(s, i + 1, i + Len(p)) = p

\* Lexicographic order of two strings by code point.
RECURSIVE KeyLess(_, _)
KeyLess(a, b) ==
  IF b = << >> THEN FALSE
  ELSE IF a = << >> THEN TRUE
  ELSE IF a[1] # b[1] THEN CodeOf(a[1]) < CodeOf(b[1])
  ELSE KeyLess(Tail(a), Tail(b))

\* `${n}` for a non-negative integer: its decimal digits.
DigitChar(d) == << "0", "1", "2", "3", "4", "5", "6", "7", "8", "9" >>[d + 1]

RECURSIVE Decimal(_)
Decimal(n) == IF n < 10 THEN << DigitChar(n) >> ELSE Decimal(n \div 10) \o << DigitChar(n % 10) >>

Str_pdf == << ".", "p", "d", "f" >>
Str_chat_data == << "c", "h", "a", "t", "_", "d", "a", "t", "a", "/" >>
Str_unknown_pdf == << "u", "n", "k", "n", "o", "w", "n" >> \o Str_pdf
Str_file_pdf == << "f", "i", "l", "e" >> \o Str_pdf

\* The two trigger phrases of the webhook; U+.... names one CJK character.
Str_trigger1 == << "U+6574", "U+7406", " ", "P", "D", "F" >>
Str_trigger2 == << "U+5206", "U+6790", "U+5408", "U+540C" >>

\* ------------------------------------------------------------------- state
VARIABLES
  env,        \* the worker's bindings: which secrets are configured
  now,        \* the millisecond clock read by Date.now() and by R2
  bucket,     \* MOLTBOT_BUCKET: a set of objects [key, uploaded, body]
  docs,       \* the documents of the Feishu document service
  stagers,    \* the dispatched downloadAndSaveFeishuFile tasks
  runs,       \* the dispatched processPdfAndReply tasks
  events,     \* number of webhook deliveries handled
  response,   \* the webhook's last HTTP response
  request     \* the payload of the webhook's last delivery

vars == << env, now, bucket, docs, stagers, runs, events, response, request >>

\* The configured verification token, and one that differs from it.
GoodToken == "vt"
BadToken == "bad"

\* The deployments explored: fully configured, one without the DashScope
\* key, one without the Feishu app secret.
Envs ==
  { [FEISHU_APP_ID |-> TRUE, FEISHU_APP_SECRET |-> TRUE, DASHSCOPE_API_KEY |-> TRUE,
     FEISHU_VERIFICATION_TOKEN |-> GoodToken],
    [FEISHU_APP_ID |-> TRUE, FEISHU_APP_SECRET |-> TRUE, DASHSCOPE_API_KEY |-> FALSE,
     FEISHU_VERIFICATION_TOKEN |-> GoodToken],
    [FEISHU_APP_ID |-> TRUE, FEISHU_APP_SECRET |-> FALSE, DASHSCOPE_API_KEY |-> TRUE,
     FEISHU_VERIFICATION_TOKEN |-> GoodToken] }

\* Conversation ids as Feishu issues them ("oc_" and an identifier); the
\* second extends the first, so only the '/' that ends the listing prefix
\* tells their keys apart.
Chat1 == << "o", "c", "_", "1" >>
Chat2 == << "o", "c", "_", "1", "2" >>

Name_a == << "a" >> \o Str_pdf
Name_bX == << "b", "_", "x", ".", "P", "D", "F" >>

\* ----------------------------------------------------------------- payloads
\* A webhook body.  json: what JSON.parse(bodyText) gives ("invalid" when it
\* throws); the other fields are the members the handler reads, "" or << >>
\* standing for a member that is undefined; has* tell whether the nested
\* object exists; content_parse is what JSON.parse(message.content) gives.
MessageEvent(token, mtype, chat, mid, cparse, text, fname, fkey) ==
  [ json |-> "object", type |-> "", token |-> "", challenge |-> "",
    schema |-> "2.0", hasHeader |-> TRUE, event_type |-> "im.message.receive_v1",
    header_token |-> token, hasEvent |-> TRUE, hasMessage |-> TRUE,
    message_type |-> mtype, chat_id |-> chat, message_id |-> mid,
    content_parse |-> cparse, text |-> text, file_name |-> fname, file_key |-> fkey ]

FileEvent(chat, mid, fname, fkey) ==
  MessageEvent(GoodToken, "file", chat, mid, "object", << >>, fname, fkey)

TextEvent(chat, mid, text) ==
  MessageEvent(GoodToken, "text", chat, mid, "object", text, << >>, "")

\* Before the first delivery: no payload.
NoRequest ==
  [ MessageEvent("", "", << >>, "", "object", << >>, << >>, "") EXCEPT
      !.json = "none", !.schema = "", !.hasHeader = FALSE, !.event_type = "",
      !.hasEvent = FALSE, !.hasMessage = FALSE ]

\* The deliveries of the pipeline specification: three file messages (two in
\* one conversation, one in the other) and a trigger message in each
\* conversation.  A delivery may repeat (Feishu redelivers events).
PipelinePayloads ==
  { FileEvent(Chat1, "m1", Name_a, "fk1"),
    FileEvent(Chat1, "m2", Name_bX, "fk2"),
    FileEvent(Chat2, "m3", Name_a, "fk3"),
    TextEvent(Chat1, "m4", Str_trigger1),
    TextEvent(Chat2, "m5", << "o", "k", " " >> \o Str_trigger2) }

\* ------------------------------------------------------------------ webhook
JsonResponse(status, kind, value) == [status |-> status, kind |-> kind, value |-> value]

NewStager(messageId, fileKey, fileName, chatId) ==
  [ pc |-> "token", messageId |-> messageId, fileKey |-> fileKey,
    fileName |-> fileName, chatId |-> chatId, objectKey |-> << >>,
    log |-> << >>, failed |-> "none", result |-> "pending" ]

\* processPdfAndReply runs synchronously up to its first await: the missing
\* credential check of lines 142-145 is decided at dispatch.
NewRun(message_id, chat_id, e) ==
  [ pc |-> IF ~e.FEISHU_APP_ID \/ ~e.FEISHU_APP_SECRET THEN "done" ELSE "token",
    result |-> IF ~e.FEISHU_APP_ID \/ ~e.FEISHU_APP_SECRET THEN "resolved" ELSE "pending",
    message_id |-> message_id, chat_id |-> chat_id,
    pdfs |-> << >>, i |-> 0, pdfBody |-> "", fileIds |-> << >>,
    uploadRes |-> "none", fileNames |-> << >>, summary |-> "", documentId |-> 0,
    writeData |-> "none", err |-> "none",
    \* history, read by the properties only: the calls made, the keys in the
    \* bucket when it was listed, whether no other task has stepped since
    log |-> << >>, keysAtList |-> {}, alone |-> TRUE ]

\* TokenRejected with no token ever rejected.
TokenRejectedNever(e, token) == FALSE

\* The token check of a URL verification and of a message event: a token is
\* configured and the payload's differs from it.
TokenRejected(e, token) ==
  e.FEISHU_VERIFICATION_TOKEN # "" /\ token # e.FEISHU_VERIFICATION_TOKEN

\* IsTrigger with the case of the letters ignored.
IsTriggerIgnoringCase(text) ==
  \/ includes(toLowerCase(text), toLowerCase(Str_trigger1))
  \/ includes(toLowerCase(text), toLowerCase(Str_trigger2))

\* The text asks for the pipeline.
IsTrigger(text) == includes(text, Str_trigger1) \/ includes(text, Str_trigger2)

\* IsPdfName with the extension looked for anywhere in the name.
IsPdfNameAnywhere(fileName) == includes(toLowerCase(fileName), Str_pdf)

\* The attachment filter of a file message.
IsPdfName(fileName) == endsWith(toLowerCase(fileName), Str_pdf)

\* UrlVerificationResult with the challenge echoed whatever the token.
UrlVerificationUnchecked(p, e) ==
  [resp |-> JsonResponse(200, "challenge", p.challenge), task |-> "none"]

\* lines 20-27: the answer to a URL verification.
UrlVerificationResult(p, e) ==
  IF TokenRejected(e, p.token)
  THEN [resp |-> JsonResponse(403, "error", "Invalid token"), task |-> "none"]
  ELSE [resp |-> JsonResponse(200, "challenge", p.challenge), task |-> "none"]

\* What the handler does with the parsed payload p: the response it returns
\* and the background task it hands to waitUntil ("none", "run" or "stage").
\* A TypeError on a member of undefined or null lands in the outer catch.
HandlerResult(p, e) ==
  IF p.json = "invalid" THEN [resp |-> JsonResponse(400, "error", "Invalid JSON"), task |-> "none"]
  ELSE IF p.json = "null" THEN [resp |-> JsonResponse(500, "error", "Internal server error"), task |-> "none"]
  ELSE IF p.type = "url_verification" THEN UrlVerificationResult(p, e)
  ELSE IF p.schema = "2.0" /\ p.hasHeader /\ p.event_type = "im.message.receive_v1" THEN
    IF TokenRejected(e, p.header_token)
    THEN [resp |-> JsonResponse(403, "error", "Invalid token"), task |-> "none"]
    ELSE IF ~p.hasEvent \/ ~p.hasMessage
    THEN [resp |-> JsonResponse(500, "error", "Internal server error"), task |-> "none"]
    ELSE IF p.message_type \in {"text", "file"} /\ p.content_parse = "null"
    THEN [resp |-> JsonResponse(500, "error", "Internal server error"), task |-> "none"]
    ELSE IF p.message_type = "text" THEN
      LET text == IF p.content_parse = "object" THEN p.text ELSE << >>
      IN  IF IsTrigger(text)
          THEN [resp |-> JsonResponse(200, "ok", ""), task |-> "run"]
          ELSE [resp |-> JsonResponse(200, "ok", ""), task |-> "none"]
    ELSE IF p.message_type = "file" THEN
      LET fileName == IF p.content_parse = "object" /\ p.file_name # << >>
                      THEN p.file_name ELSE Str_unknown_pdf
          fileKey == IF p.content_parse = "object" THEN p.file_key ELSE ""
      IN  IF fileKey # "" /\ IsPdfName(fileName)
          THEN [resp |-> JsonResponse(200, "ok", ""), task |-> "stage", fileName |-> fileName]
          ELSE [resp |-> JsonResponse(200, "ok", ""), task |-> "none"]
    ELSE [resp |-> JsonResponse(200, "ok", ""), task |-> "none"]
  ELSE [resp |-> JsonResponse(200, "ok", ""), task |-> "none"]

\* feishu.post('/webhook'): one delivery of payload p, explored while fewer
\* than maxEvents deliveries were handled and the task it dispatches is
\* within maxStagers staging tasks and maxRuns runs.
Deliver(p, maxEvents, maxStagers, maxRuns) ==
  LET r == HandlerResult(p, env) IN
  /\ events < maxEvents
  /\ r.task = "run" => Len(runs) < maxRuns
  /\ r.task = "stage" => Len(stagers) < maxStagers
  /\ events' = events + 1
  /\ response' = r.resp
  /\ request' = p
  /\ runs' = IF r.task = "run" THEN Append(runs, NewRun(p.message_id, p.chat_id, env)) ELSE runs
  /\ stagers' = IF r.task = "stage"
                THEN Append(stagers, NewStager(p.message_id, p.file_key, r.fileName, p.chat_id))
                ELSE stagers
  /\ UNCHANGED << env, now, bucket, docs >>

Webhook(p) == Deliver(p, MaxEvents, MaxStagers, MaxRuns)

\* ------------------------------------------------------ outcomes of calls
\* What an awaited external call can do.  "throw": the promise rejects (a
\* transport error, or a body that is not JSON where .json() is read).
TokenOutcomes == {"ok", "code", "throw"}       \* getFeishuToken: code 0 / code # 0
ReplyOutcomes == {"ok", "code", "throw"}       \* replyFeishuMessage
DownloadOutcomes == {"ok", "notok", "throw"}   \* fetch of the message resource
PutOutcomes == {"ok", "throw"}
ListOutcomes == {"ok", "throw"}
GetOutcomes == {"ok", "throw"}
UploadOutcomes == {"ok", "notok", "noid", "throw"}
LlmOutcomes == {"ok", "nocontent", "notok", "throw"}
DocCreateOutcomes == {"ok", "code", "noid", "throw"}
DocWriteOutcomes == {"ok", "code", "throw"}
DeleteOutcomes == {"ok", "throw"}

\* ------------------------------------------------------------------ storage
ObjectKey(chatId, millis, fileName) ==
  Str_chat_data \o chatId \o << "/" >> \o Decimal(millis) \o << "_" >> \o fileName

Keys(objects) == {o.key : o \in objects}

\* R2 put: the object at the key is replaced.
BucketPut(b, key, body, time) ==
  {o \in b : o.key # key} \cup {[key |-> key, uploaded |-> time, body |-> body]}

BucketDelete(b, key) == {o \in b : o.key # key}

\* A task took a step: every run other than `self` is no longer alone (no
\* other task has stepped since it was dispatched).
Overlapped(rs, self) ==
  [j \in 1..Len(rs) |-> IF j # self THEN [rs[j] EXCEPT !.alone = FALSE] ELSE rs[j]]

\* ------------------------------------------- downloadAndSaveFeishuFile
Finished(task) == [task EXCEPT !.pc = "done", !.result = "resolved"]

\* line 117: await getFeishuToken(...); a throw lands in the catch of line 133.
\* Feishu grants a token (code 0) only to a configured app id and secret.
StageToken(s, o) ==
  /\ stagers[s].pc = "token"
  /\ o = "ok" => (env.FEISHU_APP_ID /\ env.FEISHU_APP_SECRET)
  /\ stagers' = [stagers EXCEPT ![s] =
       IF o = "ok" THEN [@ EXCEPT !.pc = "download"]
       ELSE Finished([@ EXCEPT !.failed = "token"])]
  /\ runs' = Overlapped(runs, 0)
  /\ UNCHANGED << env, now, bucket, docs, events, response, request >>

\* lines 118-129: the download; on success the key is built from Date.now().
StageDownload(s, o) ==
  /\ stagers[s].pc = "download"
  /\ stagers' = [stagers EXCEPT ![s] =
       CASE o = "ok" ->
              [@ EXCEPT !.pc = "put",
                        !.objectKey = ObjectKey(stagers[s].chatId, now, stagers[s].fileName)]
         [] o = "notok" -> [@ EXCEPT !.pc = "replyDownloadFailed", !.failed = "download"]
         [] OTHER -> Finished([@ EXCEPT !.failed = "download"])]
  /\ runs' = Overlapped(runs, 0)
  /\ UNCHANGED << env, now, bucket, docs, events, response, request >>

\* lines 124-125: the download-failed notice, then return.
StageReplyDownloadFailed(s, o) ==
  /\ stagers[s].pc = "replyDownloadFailed"
  /\ stagers' = [stagers EXCEPT ![s] =
       Finished([@ EXCEPT !.log = Append(@, "replyDownloadFailed")])]
  /\ runs' = Overlapped(runs, 0)
  /\ UNCHANGED << env, now, bucket, docs, events, response, request >>

\* StagePut with the acknowledgment sent whatever the put did.
StagePutAcksOnFailure(s, o) ==
  /\ stagers[s].pc = "put"
  /\ IF o = "ok"
     THEN /\ bucket' = BucketPut(bucket, stagers[s].objectKey, stagers[s].fileKey, now)
          /\ stagers' = [stagers EXCEPT ![s] = [@ EXCEPT !.pc = "ack"]]
     ELSE /\ bucket' = bucket
          /\ stagers' = [stagers EXCEPT ![s] = [@ EXCEPT !.pc = "ack", !.failed = "put"]]
  /\ runs' = Overlapped(runs, 0)
  /\ UNCHANGED << env, now, docs, events, response, request >>

\* line 130: await env.MOLTBOT_BUCKET.put(objectKey, arrayBuffer); a throw
\* lands in the catch of line 133, which only logs.
StagePut(s, o) ==
  /\ stagers[s].pc = "put"
  /\ IF o = "ok"
     THEN /\ bucket' = BucketPut(bucket, stagers[s].objectKey, stagers[s].fileKey, now)
          /\ stagers' = [stagers EXCEPT ![s] = [@ EXCEPT !.pc = "ack"]]
     ELSE /\ bucket' = bucket
          /\ stagers' = [stagers EXCEPT ![s] = Finished([@ EXCEPT !.failed = "put"])]
  /\ runs' = Overlapped(runs, 0)
  /\ UNCHANGED << env, now, docs, events, response, request >>

\* line 132: the acknowledgment.
StageAck(s, o) ==
  /\ stagers[s].pc = "ack"
  /\ stagers' = [stagers EXCEPT ![s] = Finished([@ EXCEPT !.log = Append(@, "replyAck")])]
  /\ runs' = Overlapped(runs, 0)
  /\ UNCHANGED << env, now, bucket, docs, events, response, request >>

\* ---------------------------------------------------- processPdfAndReply
\* env.MOLTBOT_BUCKET.list({ prefix }): the objects whose key starts with
\* the prefix, in the key order of R2 (fewer than the 1000 of one page).
RECURSIVE InKeyOrder(_)
InKeyOrder(objects) ==
  IF objects = {} THEN << >>
  ELSE LET first == CHOOSE o \in objects : \A q \in objects : q = o \/ KeyLess(o.key, q.key)
       IN  << first >> \o InKeyOrder(objects \ {first})

\* ListPrefix without the '/' that ends the conversation id.
ListPrefixNoSlash(chat_id) == Str_chat_data \o chat_id

ListPrefix(chat_id) == Str_chat_data \o chat_id \o << "/" >>

BucketList(b, prefix) == InKeyOrder({o \in b : startsWith(o.key, prefix)})

\* line 162: listed.objects.filter(o => o.key.toLowerCase().endsWith('.pdf'))
FilterPdf(objects) == SelectSeq(objects, LAMBDA o : endsWith(toLowerCase(o.key), Str_pdf))

\* line 169: pdfs.sort((a, b) => a.uploaded.getTime() - b.uploaded.getTime());
\* Array.prototype.sort is stable.
\* InsertByUploaded with the comparator reversed (newest first).
RECURSIVE InsertByUploadedDescending(_, _)
InsertByUploadedDescending(sorted, x) ==
  IF sorted = << >> THEN << x >>
  ELSE IF sorted[Len(sorted)].uploaded - x.uploaded >= 0 THEN Append(sorted, x)
  ELSE Append(InsertByUploadedDescending(SubSeq(sorted, 1, Len(sorted) - 1), x),
              sorted[Len(sorted)])

RECURSIVE InsertByUploaded(_, _)
InsertByUploaded(sorted, x) ==
  IF sorted = << >> THEN << x >>
  ELSE IF x.uploaded - sorted[Len(sorted)].uploaded >= 0 THEN Append(sorted, x)
  ELSE Append(InsertByUploaded(SubSeq(sorted, 1, Len(sorted) - 1), x), sorted[Len(sorted)])

RECURSIVE SortByUploaded(_)
SortByUploaded(objects) ==
  IF objects = << >> THEN << >>
  ELSE InsertByUploaded(SortByUploaded(SubSeq(objects, 1, Len(objects) - 1)),
                        objects[Len(objects)])

\* line 184: pdf.key.split('_').slice(1).join('_') || 'file.pdf'
RECURSIVE AfterFirstUnderscore(_)
AfterFirstUnderscore(key) ==
  IF key = << >> THEN << >>
  ELSE IF key[1] = "_" THEN Tail(key)
  ELSE AfterFirstUnderscore(Tail(key))

FileNameOfKey(key) ==
  IF AfterFirstUnderscore(key) = << >> THEN Str_file_pdf ELSE AfterFirstUnderscore(key)

\* line 250: the title, from fileNames.join(', ') capped at 50 characters.
TitleCap == 50

RECURSIVE Join(_, _)
Join(names, sep) ==
  IF names = << >> THEN << >>
  ELSE IF Len(names) = 1 THEN names[1]
  ELSE names[1] \o sep \o Join(Tail(names), sep)

substring(s, from, to) == SubSeq(s, from + 1, IF to < Len(s) THEN to ELSE Len(s))

DocTitle(fileNames) ==
  LET joined == Join(fileNames, << ",", " " >>)
  IN  << "U+1F4C4", " ", "U+5206", "U+6790", "U+62A5", "U+544A", ":", " " >>
      \o substring(joined, 0, TitleCap)
      \o (IF Len(joined) > TitleCap THEN << ".", ".", "." >> ELSE << >>)

\* The identifier DashScope returns for the upload by run r of the body read
\* from `key`: opaque to the code, distinct per upload.
RemoteFileId(r, key) == [run |-> r, key |-> key]

\* The document id Feishu returns to run r (a run creates at most one).
NewDocumentId(r) == r

\* One external call made by a run, in call order.
Logged(run, op, key) == [run EXCEPT !.log = Append(@, [op |-> op, key |-> key, doc |-> run.documentId])]

\* A throw inside the try of lines 155-296: control goes to line 297.
Caught(run, err) == [run EXCEPT !.pc = "catch", !.err = err]

\* The for loops of lines 179 and 289 move to the next element, or past the end.
NextUpload(run) ==
  IF run.i < Len(run.pdfs) THEN [run EXCEPT !.pc = "get", !.i = @ + 1]
  ELSE [run EXCEPT !.pc = "llm", !.i = 0]

\* NextDelete with a loop that stops one element early.
NextDeleteStopsEarly(run) ==
  IF run.i + 1 < Len(run.pdfs) THEN [run EXCEPT !.pc = "delete", !.i = @ + 1]
  ELSE [run EXCEPT !.pc = "replySuccess", !.i = 0]

NextDelete(run) ==
  IF run.i < Len(run.pdfs) THEN [run EXCEPT !.pc = "delete", !.i = @ + 1]
  ELSE [run EXCEPT !.pc = "replySuccess", !.i = 0]

Step(r, run) == [Overlapped(runs, r) EXCEPT ![r] = run]

\* RunToken with the token requested inside the try: a throw reaches the
\* catch and its failure reply.
RunTokenFailureCaught(r, o) ==
  /\ runs[r].pc = "token"
  /\ runs' = Step(r, IF o = "ok" THEN [runs[r] EXCEPT !.pc = "progress"]
                     ELSE Caught(runs[r], "token"))
  /\ UNCHANGED << env, now, bucket, docs, stagers, events, response, request >>

\* lines 147-153: the token; a throw is logged and the run returns.
RunToken(r, o) ==
  /\ runs[r].pc = "token"
  /\ runs' = Step(r, IF o = "ok" THEN [runs[r] EXCEPT !.pc = "progress"]
                     ELSE Finished([runs[r] EXCEPT !.err = "token"]))
  /\ UNCHANGED << env, now, bucket, docs, stagers, events, response, request >>

\* line 157: the in-progress notice.
RunProgress(r, o) ==
  /\ runs[r].pc = "progress"
  /\ LET run == Logged(runs[r], "replyProgress", << >>)
     IN  runs' = Step(r, IF o = "throw" THEN Caught(run, "reply")
                         ELSE [run EXCEPT !.pc = "list"])
  /\ UNCHANGED << env, now, bucket, docs, stagers, events, response, request >>

\* RunList under a per-conversation claim: a file another run has gathered
\* and not yet finished with is left to that run.
RunListSkipsClaimed(r, o) ==
  /\ runs[r].pc = "list"
  /\ LET run == Logged(runs[r], "list", << >>)
         claimed == UNION { {runs[j].pdfs[i].key : i \in 1..Len(runs[j].pdfs)} :
                            j \in {k \in 1..Len(runs) : k # r /\ runs[k].pc # "done"} }
         pdfs == SortByUploaded(SelectSeq(FilterPdf(BucketList(bucket, ListPrefix(run.chat_id))),
                                          LAMBDA x : x.key \notin claimed))
     IN  runs' = Step(r,
           IF o = "throw" THEN Caught(run, "list")
           ELSE IF Len(pdfs) = 0
           THEN [run EXCEPT !.pc = "replyEmpty", !.keysAtList = Keys(bucket)]
           ELSE IF ~env.DASHSCOPE_API_KEY
           THEN Caught([run EXCEPT !.pdfs = pdfs, !.keysAtList = Keys(bucket)], "DASHSCOPE_API_KEY")
           ELSE [run EXCEPT !.pdfs = pdfs, !.keysAtList = Keys(bucket), !.pc = "get", !.i = 1])
  /\ UNCHANGED << env, now, bucket, docs, stagers, events, response, request >>

\* RunList without the DashScope key check of lines 172-174.
RunListNoKeyCheck(r, o) ==
  /\ runs[r].pc = "list"
  /\ LET run == Logged(runs[r], "list", << >>)
         pdfs == SortByUploaded(FilterPdf(BucketList(bucket, ListPrefix(run.chat_id))))
     IN  runs' = Step(r,
           IF o = "throw" THEN Caught(run, "list")
           ELSE IF Len(pdfs) = 0
           THEN [run EXCEPT !.pc = "replyEmpty", !.keysAtList = Keys(bucket)]
           ELSE [run EXCEPT !.pdfs = pdfs, !.keysAtList = Keys(bucket), !.pc = "get", !.i = 1])
  /\ UNCHANGED << env, now, bucket, docs, stagers, events, response, request >>

\* lines 160-177: list, filter, the empty case, sort, the DashScope key check.
RunList(r, o) ==
  /\ runs[r].pc = "list"
  /\ LET run == Logged(runs[r], "list", << >>)
         pdfs == SortByUploaded(FilterPdf(BucketList(bucket, ListPrefix(run.chat_id))))
     IN  runs' = Step(r,
           IF o = "throw" THEN Caught(run, "list")
           ELSE IF Len(pdfs) = 0
           THEN [run EXCEPT !.pc = "replyEmpty", !.keysAtList = Keys(bucket)]
           ELSE IF ~env.DASHSCOPE_API_KEY
           THEN Caught([run EXCEPT !.pdfs = pdfs, !.keysAtList = Keys(bucket)], "DASHSCOPE_API_KEY")
           ELSE [run EXCEPT !.pdfs = pdfs, !.keysAtList = Keys(bucket), !.pc = "get", !.i = 1])
  /\ UNCHANGED << env, now, bucket, docs, stagers, events, response, request >>

\* lines 164-165: the nothing-to-process reply, then return.
RunReplyEmpty(r, o) ==
  /\ runs[r].pc = "replyEmpty"
  /\ LET run == Logged(runs[r], "replyEmpty", << >>)
     IN  runs' = Step(r, IF o = "throw" THEN Caught(run, "reply") ELSE Finished(run))
  /\ UNCHANGED << env, now, bucket, docs, stagers, events, response, request >>

\* lines 180-185: get the object; a missing object is skipped (continue).
RunGet(r, o) ==
  /\ runs[r].pc = "get"
  /\ LET key == runs[r].pdfs[runs[r].i].key
         run == Logged(runs[r], "get", key)
         found == {x \in bucket : x.key = key}
     IN  runs' = Step(r,
           IF o = "throw" THEN Caught(run, "get")
           ELSE IF found = {} THEN NextUpload(run)
           ELSE [run EXCEPT !.pc = "upload",
                            !.pdfBody = (CHOOSE x \in found : TRUE).body,
                            !.fileNames = Append(@, FileNameOfKey(key))])
  /\ UNCHANGED << env, now, bucket, docs, stagers, events, response, request >>

\* RunUpload without the check of line 206: an answer without a file id is
\* pushed like any other.
RunUploadIgnoresMissingId(r, o) ==
  /\ runs[r].pc = "upload"
  /\ LET key == runs[r].pdfs[runs[r].i].key
         run == Logged(runs[r], "upload", key)
     IN  runs' = Step(r,
           CASE o = "ok" -> NextUpload([run EXCEPT !.uploadRes = "ok",
                                                   !.fileIds = Append(@, RemoteFileId(r, key))])
             [] o = "notok" -> Caught([run EXCEPT !.uploadRes = "notok"], "upload:notok")
             [] o = "noid" -> NextUpload([run EXCEPT !.uploadRes = "noid",
                                                     !.fileIds = Append(@, RemoteFileId(r, key))])
             [] OTHER -> Caught(run, "upload:throw"))
  /\ UNCHANGED << env, now, bucket, docs, stagers, events, response, request >>

\* lines 187-207: the upload to DashScope.
RunUpload(r, o) ==
  /\ runs[r].pc = "upload"
  /\ LET key == runs[r].pdfs[runs[r].i].key
         run == Logged(runs[r], "upload", key)
     IN  runs' = Step(r,
           CASE o = "ok" -> NextUpload([run EXCEPT !.uploadRes = "ok",
                                                   !.fileIds = Append(@, RemoteFileId(r, key))])
             [] o = "notok" -> Caught([run EXCEPT !.uploadRes = "notok"], "upload:notok")
             [] o = "noid" -> Caught([run EXCEPT !.uploadRes = "noid"], "upload:noid")
             [] OTHER -> Caught(run, "upload:throw"))
  /\ UNCHANGED << env, now, bucket, docs, stagers, events, response, request >>

\* RunLlm without the placeholder of line 239: an answer without content
\* leaves the summary empty.
RunLlmNoPlaceholder(r, o) ==
  /\ runs[r].pc = "llm"
  /\ LET run == Logged(runs[r], "llm", << >>)
     IN  runs' = Step(r,
           CASE o = "ok" -> [run EXCEPT !.pc = "docCreate", !.summary = "content"]
             [] o = "nocontent" -> [run EXCEPT !.pc = "docCreate", !.summary = ""]
             [] o = "notok" -> Caught(run, "llm:notok")
             [] OTHER -> Caught(run, "llm:throw"))
  /\ UNCHANGED << env, now, bucket, docs, stagers, events, response, request >>

\* lines 211-239: the one summarization request.
RunLlm(r, o) ==
  /\ runs[r].pc = "llm"
  /\ LET run == Logged(runs[r], "llm", << >>)
     IN  runs' = Step(r,
           CASE o = "ok" -> [run EXCEPT !.pc = "docCreate", !.summary = "content"]
             [] o = "nocontent" -> [run EXCEPT !.pc = "docCreate", !.summary = "placeholder"]
             [] o = "notok" -> Caught(run, "llm:notok")
             [] OTHER -> Caught(run, "llm:throw"))
  /\ UNCHANGED << env, now, bucket, docs, stagers, events, response, request >>

\* RunDocCreate with the cleanup started right after the creation, ahead of
\* the content write.
RunDocCreateCleansFirst(r, o) ==
  /\ runs[r].pc = "docCreate"
  /\ LET run == Logged(runs[r], "docCreate", << >>)
     IN  /\ runs' = Step(r,
              CASE o = "ok" -> NextDelete([run EXCEPT !.documentId = NewDocumentId(r), !.i = 0])
                [] o = "code" -> Caught(run, "docCreate:code")
                [] o = "noid" -> Caught(run, "docCreate:noid")
                [] OTHER -> Caught(run, "docCreate:throw"))
         /\ docs' = IF o = "ok"
                    THEN docs \cup {[id |-> NewDocumentId(r), title |-> DocTitle(run.fileNames),
                                     content |-> "empty"]}
                    ELSE docs
  /\ UNCHANGED << env, now, bucket, stagers, events, response, request >>

\* lines 243-258: create the document.
RunDocCreate(r, o) ==
  /\ runs[r].pc = "docCreate"
  /\ LET run == Logged(runs[r], "docCreate", << >>)
     IN  /\ runs' = Step(r,
              CASE o = "ok" -> [run EXCEPT !.pc = "docWrite", !.documentId = NewDocumentId(r)]
                [] o = "code" -> Caught(run, "docCreate:code")
                [] o = "noid" -> Caught(run, "docCreate:noid")
                [] OTHER -> Caught(run, "docCreate:throw"))
         /\ docs' = IF o = "ok"
                    THEN docs \cup {[id |-> NewDocumentId(r), title |-> DocTitle(run.fileNames),
                                     content |-> "empty"]}
                    ELSE docs
  /\ UNCHANGED << env, now, bucket, stagers, events, response, request >>

\* lines 261-286: write the summary; only a code # 0 answer is tolerated.
RunDocWrite(r, o) ==
  /\ runs[r].pc = "docWrite"
  /\ LET run == Logged(runs[r], "docWrite", << >>)
     IN  /\ runs' = Step(r,
              IF o = "throw" THEN Caught(run, "docWrite:throw")
              ELSE NextDelete([run EXCEPT !.writeData = o, !.i = 0]))
         /\ docs' = IF o = "ok"
                    THEN {IF d.id = run.documentId THEN [d EXCEPT !.content = run.summary] ELSE d
                          : d \in docs}
                    ELSE docs
  /\ UNCHANGED << env, now, bucket, stagers, events, response, request >>

\* lines 289-291: delete the next gathered file.
RunDelete(r, o) ==
  /\ runs[r].pc = "delete"
  /\ LET key == runs[r].pdfs[runs[r].i].key
         run == Logged(runs[r], "delete", key)
     IN  /\ runs' = Step(r, IF o = "throw" THEN Caught(run, "delete") ELSE NextDelete(run))
         /\ bucket' = IF o = "throw" THEN bucket ELSE BucketDelete(bucket, key)
  /\ UNCHANGED << env, now, docs, stagers, events, response, request >>

\* lines 294-295: the success reply.
RunReplySuccess(r, o) ==
  /\ runs[r].pc = "replySuccess"
  /\ LET run == Logged(runs[r], "replySuccess", << >>)
     IN  runs' = Step(r, IF o = "throw" THEN Caught(run, "reply") ELSE Finished(run))
  /\ UNCHANGED << env, now, bucket, docs, stagers, events, response, request >>

\* lines 297-300: the catch block replies with the failure; a throw of that
\* reply leaves the function.
RunCatch(r, o) ==
  /\ runs[r].pc = "catch"
  /\ LET run == Logged(runs[r], "replyFailure", << >>)
     IN  runs' = Step(r, IF o = "throw" THEN [run EXCEPT !.pc = "done", !.result = "rejected"]
                         ELSE Finished(run))
  /\ UNCHANGED << env, now, bucket, docs, stagers, events, response, request >>

\* The millisecond clock advances.
Tick ==
  /\ now < MaxTime
  /\ now' = now + 1
  /\ UNCHANGED << env, bucket, docs, stagers, runs, events, response, request >>

Init ==
  /\ env \in Envs
  /\ now = 1
  /\ bucket = {}
  /\ docs = {}
  /\ stagers = << >>
  /\ runs = << >>
  /\ events = 0
  /\ response = JsonResponse(0, "none", "")
  /\ request = NoRequest

\* ----------------------------------------------------------- specification
Stagers == 1..Len(stagers)
Runs == 1..Len(runs)

Next ==
  \/ \E p \in PipelinePayloads : Webhook(p)
  \/ Tick
  \/ \E s \in Stagers, o \in TokenOutcomes : StageToken(s, o)
  \/ \E s \in Stagers, o \in DownloadOutcomes : StageDownload(s, o)
  \/ \E s \in Stagers, o \in ReplyOutcomes : StageReplyDownloadFailed(s, o)
  \/ \E s \in Stagers, o \in PutOutcomes : StagePut(s, o)
  \/ \E s \in Stagers, o \in ReplyOutcomes : StageAck(s, o)
  \/ \E r \in Runs, o \in TokenOutcomes : RunToken(r, o)
  \/ \E r \in Runs, o \in ReplyOutcomes : RunProgress(r, o)
  \/ \E r \in Runs, o \in ListOutcomes : RunList(r, o)
  \/ \E r \in Runs, o \in ReplyOutcomes : RunReplyEmpty(r, o)
  \/ \E r \in Runs, o \in GetOutcomes : RunGet(r, o)
  \/ \E r \in Runs, o \in UploadOutcomes : RunUpload(r, o)
  \/ \E r \in Runs, o \in LlmOutcomes : RunLlm(r, o)
  \/ \E r \in Runs, o \in DocCreateOutcomes : RunDocCreate(r, o)
  \/ \E r \in Runs, o \in DocWriteOutcomes : RunDocWrite(r, o)
  \/ \E r \in Runs, o \in DeleteOutcomes : RunDelete(r, o)
  \/ \E r \in Runs, o \in ReplyOutcomes : RunReplySuccess(r, o)
  \/ \E r \in Runs, o \in ReplyOutcomes : RunCatch(r, o)

Spec == Init /\ [][Next]_vars

\* ----------------------------------------- specification: overlapping runs
\* One conversation of a fully configured deployment, with one file message
\* and the trigger message, delivered up to MaxOverlapEvents times: up to
\* MaxOverlapRuns runs of the same conversation are in flight together.
MaxOverlapEvents == 3
MaxOverlapStagers == 1
MaxOverlapRuns == 2

OverlapPayloads ==
  { FileEvent(Chat1, "m1", Name_a, "fk1"),
    TextEvent(Chat1, "m4", Str_trigger1) }

InitOverlap ==
  /\ env = [FEISHU_APP_ID |-> TRUE, FEISHU_APP_SECRET |-> TRUE, DASHSCOPE_API_KEY |-> TRUE,
            FEISHU_VERIFICATION_TOKEN |-> GoodToken]
  /\ now = 1
  /\ bucket = {}
  /\ docs = {}
  /\ stagers = << >>
  /\ runs = << >>
  /\ events = 0
  /\ response = JsonResponse(0, "none", "")
  /\ request = NoRequest

NextOverlap ==
  \/ \E p \in OverlapPayloads : Deliver(p, MaxOverlapEvents, MaxOverlapStagers, MaxOverlapRuns)
  \/ Tick
  \/ \E s \in Stagers, o \in TokenOutcomes : StageToken(s, o)
  \/ \E s \in Stagers, o \in DownloadOutcomes : StageDownload(s, o)
  \/ \E s \in Stagers, o \in ReplyOutcomes : StageReplyDownloadFailed(s, o)
  \/ \E s \in Stagers, o \in PutOutcomes : StagePut(s, o)
  \/ \E s \in Stagers, o \in ReplyOutcomes : StageAck(s, o)
  \/ \E r \in Runs, o \in TokenOutcomes : RunToken(r, o)
  \/ \E r \in Runs, o \in ReplyOutcomes : RunProgress(r, o)
  \/ \E r \in Runs, o \in ListOutcomes : RunList(r, o)
  \/ \E r \in Runs, o \in ReplyOutcomes : RunReplyEmpty(r, o)
  \/ \E r \in Runs, o \in GetOutcomes : RunGet(r, o)
  \/ \E r \in Runs, o \in UploadOutcomes : RunUpload(r, o)
  \/ \E r \in Runs, o \in LlmOutcomes : RunLlm(r, o)
  \/ \E r \in Runs, o \in DocCreateOutcomes : RunDocCreate(r, o)
  \/ \E r \in Runs, o \in DocWriteOutcomes : RunDocWrite(r, o)
  \/ \E r \in Runs, o \in DeleteOutcomes : RunDelete(r, o)
  \/ \E r \in Runs, o \in ReplyOutcomes : RunReplySuccess(r, o)
  \/ \E r \in Runs, o \in ReplyOutcomes : RunCatch(r, o)

SpecOverlap == InitOverlap /\ [][NextOverlap]_vars

\* ------------------------------- specification: races of succeeding runs
\* The conversation of SpecOverlap with up to MaxRaceRuns runs in flight and
\* every external call succeeding, so that neither the download-failed
\* notice nor the catch is reached: the interleavings of runs that nothing
\* stops.
MaxRaceEvents == 4
MaxRaceStagers == 1
MaxRaceRuns == 3

NextRace ==
  \/ \E p \in OverlapPayloads : Deliver(p, MaxRaceEvents, MaxRaceStagers, MaxRaceRuns)
  \/ Tick
  \/ \E s \in Stagers : StageToken(s, "ok")
  \/ \E s \in Stagers : StageDownload(s, "ok")
  \/ \E s \in Stagers : StagePut(s, "ok")
  \/ \E s \in Stagers : StageAck(s, "ok")
  \/ \E r \in Runs : RunToken(r, "ok")
  \/ \E r \in Runs : RunProgress(r, "ok")
  \/ \E r \in Runs : RunList(r, "ok")
  \/ \E r \in Runs : RunReplyEmpty(r, "ok")
  \/ \E r \in Runs : RunGet(r, "ok")
  \/ \E r \in Runs : RunUpload(r, "ok")
  \/ \E r \in Runs : RunLlm(r, "ok")
  \/ \E r \in Runs : RunDocCreate(r, "ok")
  \/ \E r \in Runs : RunDocWrite(r, "ok")
  \/ \E r \in Runs : RunDelete(r, "ok")
  \/ \E r \in Runs : RunReplySuccess(r, "ok")

SpecRace == InitOverlap /\ [][NextRace]_vars

\* --------------------------------------- specification: the webhook's bodies
\* Every shape of body the handler tells apart, delivered to a deployment
\* with and without a configured verification token; each delivery that
\* dispatches a task is followed by that task's steps.
MaxWebhookEvents == 3
MaxWebhookStagers == 1
MaxWebhookRuns == 1

WebhookEnvs ==
  { [FEISHU_APP_ID |-> TRUE, FEISHU_APP_SECRET |-> TRUE, DASHSCOPE_API_KEY |-> TRUE,
     FEISHU_VERIFICATION_TOKEN |-> tok] : tok \in {GoodToken, ""} }

Challenge == "abc123"

Name_txt == << "n", ".", "t", "x", "t" >>
Name_pdfx == Name_a \o << "x" >>

\* A body that is not JSON; the JSON null; a JSON number, string or boolean
\* (every member read of it is undefined); the empty JSON object.
InvalidJson == [NoRequest EXCEPT !.json = "invalid"]
JsonNull == [NoRequest EXCEPT !.json = "null"]
JsonScalar == [NoRequest EXCEPT !.json = "scalar"]
EmptyObject == [NoRequest EXCEPT !.json = "object"]

UrlVerification(token) ==
  [NoRequest EXCEPT !.json = "object", !.type = "url_verification",
                    !.token = token, !.challenge = Challenge]

\* A body that is a URL verification and has the members of a file message too.
UrlVerificationWithEvent(token) ==
  [FileEvent(Chat1, "m8", Name_a, "fk8") EXCEPT
     !.type = "url_verification", !.token = token, !.challenge = Challenge]

WebhookPayloads ==
  { InvalidJson, JsonNull, JsonScalar, EmptyObject,
    UrlVerification(GoodToken), UrlVerification(BadToken),
    UrlVerificationWithEvent(GoodToken), UrlVerificationWithEvent(BadToken),
    \* message events with a header token that differs
    MessageEvent(BadToken, "file", Chat1, "m6", "object", << >>, Name_a, "fk6"),
    MessageEvent(BadToken, "text", Chat1, "m7", "object", Str_trigger1, << >>, ""),
    \* a message event without event, and one without event.message
    [FileEvent(Chat1, "m9", Name_a, "fk9") EXCEPT !.hasEvent = FALSE, !.hasMessage = FALSE],
    [TextEvent(Chat1, "m10", Str_trigger1) EXCEPT !.hasMessage = FALSE],
    \* another schema, another event type, another message type
    [FileEvent(Chat1, "m11", Name_a, "fk11") EXCEPT !.schema = "1.0"],
    [TextEvent(Chat1, "m12", Str_trigger1) EXCEPT !.event_type = "im.message.message_read_v1"],
    MessageEvent(GoodToken, "image", Chat1, "m13", "object", Str_trigger1, Name_a, "fk13"),
    \* file messages: names that pass and fail the filter, no name, no key,
    \* a content that does not parse, a content that is the JSON null
    FileEvent(Chat1, "m1", Name_a, "fk1"),
    FileEvent(Chat1, "m2", Name_bX, "fk2"),
    FileEvent(Chat1, "m14", Name_txt, "fk14"),
    FileEvent(Chat1, "m15", Name_pdfx, "fk15"),
    FileEvent(Chat1, "m16", << >>, "fk16"),
    FileEvent(Chat1, "m17", Name_a, ""),
    MessageEvent(GoodToken, "file", Chat1, "m18", "invalid", << >>, Name_a, "fk18"),
    MessageEvent(GoodToken, "file", Chat1, "m19", "null", << >>, Name_a, "fk19"),
    \* text messages: a trigger, no trigger, a content that does not parse
    TextEvent(Chat1, "m4", Str_trigger1),
    TextEvent(Chat1, "m20", << "o", "k" >>),
    \* texts near a trigger: another case, the phrase interrupted, the second
    \* phrase inside a longer text
    TextEvent(Chat1, "m22", toLowerCase(Str_trigger1)),
    TextEvent(Chat1, "m23", SubSeq(Str_trigger1, 1, 2) \o SubSeq(Str_trigger1, 4, 6)),
    TextEvent(Chat1, "m24", << "o", "k", " " >> \o Str_trigger2 \o << "!" >>),
    MessageEvent(GoodToken, "text", Chat1, "m21", "invalid", Str_trigger1, << >>, "") }

InitWebhook ==
  /\ env \in WebhookEnvs
  /\ now = 1
  /\ bucket = {}
  /\ docs = {}
  /\ stagers = << >>
  /\ runs = << >>
  /\ events = 0
  /\ response = JsonResponse(0, "none", "")
  /\ request = NoRequest

NextWebhook ==
  \/ \E p \in WebhookPayloads : Deliver(p, MaxWebhookEvents, MaxWebhookStagers, MaxWebhookRuns)
  \/ Tick
  \/ \E s \in Stagers, o \in TokenOutcomes : StageToken(s, o)
  \/ \E s \in Stagers, o \in DownloadOutcomes : StageDownload(s, o)
  \/ \E s \in Stagers, o \in ReplyOutcomes : StageReplyDownloadFailed(s, o)
  \/ \E s \in Stagers, o \in PutOutcomes : StagePut(s, o)
  \/ \E s \in Stagers, o \in ReplyOutcomes : StageAck(s, o)
  \/ \E r \in Runs, o \in TokenOutcomes : RunToken(r, o)
  \/ \E r \in Runs, o \in ReplyOutcomes : RunProgress(r, o)
  \/ \E r \in Runs, o \in ListOutcomes : RunList(r, o)
  \/ \E r \in Runs, o \in ReplyOutcomes : RunReplyEmpty(r, o)
  \/ \E r \in Runs, o \in GetOutcomes : RunGet(r, o)
  \/ \E r \in Runs, o \in UploadOutcomes : RunUpload(r, o)
  \/ \E r \in Runs, o \in LlmOutcomes : RunLlm(r, o)
  \/ \E r \in Runs, o \in DocCreateOutcomes : RunDocCreate(r, o)
  \/ \E r \in Runs, o \in DocWriteOutcomes : RunDocWrite(r, o)
  \/ \E r \in Runs, o \in DeleteOutcomes : RunDelete(r, o)
  \/ \E r \in Runs, o \in ReplyOutcomes : RunReplySuccess(r, o)
  \/ \E r \in Runs, o \in ReplyOutcomes : RunCatch(r, o)

SpecWebhook == InitWebhook /\ [][NextWebhook]_vars

\* ------------------------------------------------- reading a run's history
Calls(run, ops) == SelectSeq(run.log, LAMBDA e : e.op \in ops)

KeysCalled(run, op) == [i \in 1..Len(Calls(run, {op})) |-> Calls(run, {op})[i].key]

Made(run, op) == Calls(run, {op}) # << >>

LastOp(run) == IF run.log = << >> THEN "none" ELSE run.log[Len(run.log)].op

PdfKeys(run) == {run.pdfs[i].key : i \in 1..Len(run.pdfs)}

\* The run returned right after its success reply.
Succeeded(run) == run.pc = "done" /\ LastOp(run) = "replySuccess"

\* The keys other runs have asked the bucket to delete.
DeletedBy(r) == {KeysCalled(runs[r], "delete")[i] : i \in 1..Len(KeysCalled(runs[r], "delete"))}

DeletedByOthers(r) == UNION {DeletedBy(j) : j \in Runs \ {r}}

\* The .pdf keys of the run's conversation that the bucket held when listed.
StagedAtList(run) ==
  {k \in run.keysAtList :
     startsWith(k, Str_chat_data \o run.chat_id \o << "/" >>)
     /\ endsWith(toLowerCase(k), Str_pdf)}

\* ------------------------------------------------------------------- claims

\* C1: a run that ends with its success reply has made exactly one cleanup
\* pass: its delete calls are the .pdf keys that were under the
\* conversation's prefix when it listed, each once (in gathered order) and
\* no other key; and when no other task has stepped since the run began,
\* none of those keys is left in the bucket.
C1_CleanupExactlyOnce ==
  \A r \in Runs :
    Succeeded(runs[r]) =>
      /\ KeysCalled(runs[r], "delete") = [i \in 1..Len(runs[r].pdfs) |-> runs[r].pdfs[i].key]
      /\ Cardinality(PdfKeys(runs[r])) = Len(runs[r].pdfs)
      /\ PdfKeys(runs[r]) = StagedAtList(runs[r])
      /\ runs[r].alone => PdfKeys(runs[r]) \cap Keys(bucket) = {}

C1_Witness ==
  \E r \in Runs :
    /\ Succeeded(runs[r])
    /\ runs[r].alone
    /\ Len(runs[r].pdfs) = 2
    /\ Len(KeysCalled(runs[r], "delete")) = 2

\* C2 (as claimed): a finished run that did not end with its success reply
\* has left every file it gathered in the bucket (unless another run
\* deleted it).
C2_FilesKeptOnFailure ==
  \A r \in Runs :
    (runs[r].pc = "done" /\ ~Succeeded(runs[r])) =>
      PdfKeys(runs[r]) \subseteq (Keys(bucket) \cup DeletedByOthers(r))

\* C3: once an upload has answered non-OK or without a file id, the run
\* makes no summarization, document or delete call, goes to its failure
\* reply and ends with it, and every gathered file is still in the bucket
\* (unless another run deleted it).
C3_UploadFailureAborts ==
  \A r \in Runs :
    runs[r].uploadRes \in {"notok", "noid"} =>
      /\ Calls(runs[r], {"llm", "docCreate", "docWrite", "delete", "replySuccess"}) = << >>
      /\ runs[r].pc \in {"catch", "done"}
      /\ runs[r].pc = "done" => LastOp(runs[r]) = "replyFailure"
      /\ PdfKeys(runs[r]) \subseteq (Keys(bucket) \cup DeletedByOthers(r))

\* The upload of the second of two gathered files failed, and the run ended.
C3_Witness ==
  \E r \in Runs :
    /\ runs[r].uploadRes \in {"notok", "noid"}
    /\ Len(runs[r].pdfs) = 2
    /\ Len(runs[r].fileIds) = 1
    /\ runs[r].pc = "done"

\* C4 (as claimed): a run whose content write failed in any way (an error
\* code, or a throw of the call or of its .json()) and that met no other
\* failure ends with the success reply, having deleted every gathered file
\* and sent no failure reply.
C4_WriteFailureTolerated ==
  \A r \in Runs :
    (/\ runs[r].pc = "done"
     /\ runs[r].documentId # 0
     /\ \/ runs[r].writeData = "code" /\ runs[r].err = "none"
        \/ runs[r].err = "docWrite:throw") =>
      /\ Succeeded(runs[r])
      /\ ~Made(runs[r], "replyFailure")
      /\ Len(KeysCalled(runs[r], "delete")) = Len(runs[r].pdfs)

\* C5 (as claimed): a run that found no .pdf object calls neither service,
\* deletes nothing, and sends one nothing-to-process reply and no success
\* or failure reply.
C5_EmptyRunRepliesOnce ==
  \A r \in Runs :
    Made(runs[r], "replyEmpty") =>
      /\ Calls(runs[r], {"get", "upload", "llm", "docCreate", "docWrite", "delete"}) = << >>
      /\ Len(Calls(runs[r], {"replyEmpty"})) = 1
      /\ Calls(runs[r], {"replySuccess", "replyFailure"}) = << >>

\* C6 (as claimed): the promise of processPdfAndReply never rejects.
C6_NeverRejects == \A r \in Runs : runs[r].result # "rejected"

\* The upload time (R2's `uploaded`) the run's listing gave for a key.
UploadedAt(run, key) ==
  run.pdfs[CHOOSE i \in 1..Len(run.pdfs) : run.pdfs[i].key = key].uploaded

InUploadOrder(run, keys) ==
  \A i, j \in 1..Len(keys) : i < j => UploadedAt(run, keys[i]) <= UploadedAt(run, keys[j])

FileIdKeys(run) == [i \in 1..Len(run.fileIds) |-> run.fileIds[i].key]

\* C7: the file ids of the (single) summarization request, and the upload
\* calls before it, are in ascending order of the files' upload times: no
\* file precedes one that was uploaded to storage earlier.
C7_FileIdsInUploadOrder ==
  \A r \in Runs :
    /\ InUploadOrder(runs[r], FileIdKeys(runs[r]))
    /\ InUploadOrder(runs[r], KeysCalled(runs[r], "upload"))
    /\ Len(Calls(runs[r], {"llm"})) <= 1
    /\ Made(runs[r], "llm") => \A i \in 1..Len(runs[r].fileIds) : runs[r].fileIds[i].run = r

\* The request was sent for two files whose key order is the reverse of
\* their upload order, so the sort had to swap them.
C7_Witness ==
  \E r \in Runs :
    /\ Made(runs[r], "llm")
    /\ Len(runs[r].fileIds) = 2
    /\ UploadedAt(runs[r], runs[r].fileIds[1].key) < UploadedAt(runs[r], runs[r].fileIds[2].key)
    /\ KeyLess(runs[r].fileIds[2].key, runs[r].fileIds[1].key)

\* C8 (as claimed): a staging task whose bucket put failed has sent a
\* failure notice, and its promise resolved.
C8_PutFailureNotified ==
  \A s \in Stagers :
    (stagers[s].pc = "done" /\ stagers[s].failed = "put") =>
      /\ stagers[s].log # << >>
      /\ stagers[s].result = "resolved"

\* C9: a staging task that has sent its acknowledgment met no failure and
\* had put its object, under chat_data/{chatId}/, before: the object is in
\* the bucket or a run has deleted it since; a task whose token request,
\* download or put failed never sends the acknowledgment.
C9_AckOnlyAfterPut ==
  \A s \in Stagers :
    /\ stagers[s].log = << "replyAck" >> =>
         /\ stagers[s].failed = "none"
         /\ startsWith(stagers[s].objectKey, Str_chat_data \o stagers[s].chatId \o << "/" >>)
         /\ stagers[s].objectKey \in Keys(bucket) \cup UNION {DeletedBy(r) : r \in Runs}
    /\ stagers[s].failed # "none" => stagers[s].log \in {<< >>, << "replyDownloadFailed" >>}
    /\ stagers[s].pc = "ack" => stagers[s].objectKey \in Keys(bucket) \cup UNION {DeletedBy(r) : r \in Runs}

C9_Witness ==
  \E s \in Stagers :
    /\ stagers[s].log = << "replyAck" >>
    /\ stagers[s].objectKey \in Keys(bucket)

\* The staging tasks that have put an object.
Stored == {s \in Stagers : stagers[s].pc \in {"ack", "done"} /\ stagers[s].failed = "none"
                           /\ stagers[s].objectKey # << >>}

\* C10: every object a run gets, uploads or deletes was staged under the
\* run's conversation and under no other, the body it uploads is an
\* attachment of that conversation, and a stored object leaves the bucket
\* only by a delete of a run of its own conversation.
C10_NoMixing ==
  /\ \A r \in Runs : \A i \in 1..Len(runs[r].log) :
       runs[r].log[i].op \in {"get", "upload", "delete"} =>
         /\ \E s \in Stored : stagers[s].objectKey = runs[r].log[i].key
         /\ \A s \in Stagers : stagers[s].objectKey = runs[r].log[i].key
                                 => stagers[s].chatId = runs[r].chat_id
  /\ \A r \in Runs : runs[r].pdfBody # "" =>
       \E s \in Stored : stagers[s].chatId = runs[r].chat_id /\ stagers[s].fileKey = runs[r].pdfBody
  /\ \A s \in Stored :
       \/ stagers[s].objectKey \in Keys(bucket)
       \/ \E r \in Runs : runs[r].chat_id = stagers[s].chatId /\ stagers[s].objectKey \in DeletedBy(r)

\* A run of conversation oc_1 has deleted its file while the bucket holds a
\* file of conversation oc_12.
C10_Witness ==
  \E r \in Runs :
    /\ runs[r].chat_id = Chat1
    /\ DeletedBy(r) # {}
    /\ DeletedBy(r) \cap Keys(bucket) = {}
    /\ \E o \in bucket : startsWith(o.key, Str_chat_data \o Chat2 \o << "/" >>)

\* C11: any two staging tasks that have put an object have put it at
\* distinct keys, so that no staged object is replaced by a later staging.
C11_StagedKeysDistinct ==
  \A s, t \in Stored : s # t => stagers[s].objectKey # stagers[t].objectKey

\* C12: when a run sends the summarization request it holds one remote file
\* id per file it gathered from the listing, and at least one: no gathered
\* file was skipped.
C12_OneFileIdPerGatheredFile ==
  \A r \in Runs : Made(runs[r], "llm") =>
    /\ Len(runs[r].fileIds) = Len(runs[r].pdfs)
    /\ Len(runs[r].fileIds) >= 1

\* C13: a run dispatched without the app id or the app secret, or whose
\* token request failed, has returned having made no call at all: no reply,
\* no list, get or delete on the bucket, no upload, summarization or
\* document call.
C13_NoTokenNoEffect ==
  \A r \in Runs :
    (~env.FEISHU_APP_ID \/ ~env.FEISHU_APP_SECRET \/ runs[r].err = "token") =>
      /\ runs[r].pc = "done"
      /\ runs[r].result = "resolved"
      /\ runs[r].log = << >>
      /\ runs[r].documentId = 0

\* A run's token request failed while a file of its conversation is staged.
C13_Witness ==
  \E r \in Runs :
    /\ runs[r].err = "token"
    /\ \E o \in bucket : startsWith(o.key, ListPrefix(runs[r].chat_id))

\* The replies a run has sent (or tried to send).
Replies(run) == Calls(run, {"replyProgress", "replyEmpty", "replySuccess", "replyFailure"})

\* C14, as stated: a run that found the app credentials or the DashScope key
\* missing has sent no reply.
C14_MissingKeyLoggedOnly ==
  \A r \in Runs :
    (~env.FEISHU_APP_ID \/ ~env.FEISHU_APP_SECRET \/ runs[r].err = "DASHSCOPE_API_KEY") =>
      Replies(runs[r]) = << >>

\* C14, amended: without the app credentials a run sends no reply (it makes
\* no call at all); without the DashScope key a run makes no get, upload,
\* summarization, document or delete call and never succeeds, but the missing
\* key is reported to the user: the run that finds it has sent the
\* in-progress notice and ends with the failure reply.
C14_MissingKeyReported ==
  \A r \in Runs :
    /\ (~env.FEISHU_APP_ID \/ ~env.FEISHU_APP_SECRET) => runs[r].log = << >>
    /\ ~env.DASHSCOPE_API_KEY =>
         /\ Calls(runs[r], {"get", "upload", "llm", "docCreate", "docWrite", "delete"}) = << >>
         /\ ~Succeeded(runs[r])
         /\ runs[r].pdfs # << >> => runs[r].err = "DASHSCOPE_API_KEY"
    /\ runs[r].err = "DASHSCOPE_API_KEY" =>
         /\ ~env.DASHSCOPE_API_KEY
         /\ Made(runs[r], "replyProgress")
         /\ runs[r].pc \in {"catch", "done"}
         /\ runs[r].pc = "done" => LastOp(runs[r]) = "replyFailure"

\* A run found the DashScope key missing and has sent its failure reply.
C14_Witness ==
  \E r \in Runs :
    /\ runs[r].err = "DASHSCOPE_API_KEY"
    /\ runs[r].pc = "done"
    /\ runs[r].result = "resolved"
    /\ LastOp(runs[r]) = "replyFailure"

\* ------------------------------------------------- the webhook's answers
Ok == JsonResponse(200, "ok", "")

\* No task was dispatched for the message of payload p.
NoTaskFor(p) ==
  /\ \A s \in Stagers : stagers[s].messageId # p.message_id
  /\ \A r \in Runs : runs[r].message_id # p.message_id

\* The body parsed, to something other than null, and is a URL verification.
IsUrlVerification(p) == p.json = "object" /\ p.type = "url_verification"

\* The body has the schema and header of a message event.
IsMessageEvent(p) ==
  /\ p.json = "object"
  /\ ~IsUrlVerification(p)
  /\ p.schema = "2.0" /\ p.hasHeader /\ p.event_type = "im.message.receive_v1"

\* The event's header token is the configured one, or none is configured.
TokenAccepted(p) ==
  env.FEISHU_VERIFICATION_TOKEN = "" \/ p.header_token = env.FEISHU_VERIFICATION_TOKEN

\* C15: a delivered body that parsed and is neither a URL verification nor a
\* message event (or is a correctly tokened message event without its event
\* or message member) was answered {ok: true}, and no task was dispatched
\* for it.
C15_OthersAcknowledged ==
  ( /\ request.json \in {"null", "scalar", "object"}
    /\ ~IsUrlVerification(request)
    /\ \/ ~IsMessageEvent(request)
       \/ TokenAccepted(request) /\ (~request.hasEvent \/ ~request.hasMessage) )
  => (response = Ok /\ NoTaskFor(request))

\* C16: a URL verification whose token equals the configured one was
\* answered exactly {challenge}; one whose token differs from a configured
\* one was answered with an error that does not carry the challenge; in no
\* case was a task dispatched for it.
C16_UrlVerification ==
  IsUrlVerification(request) =>
    /\ request.token = env.FEISHU_VERIFICATION_TOKEN =>
         response = JsonResponse(200, "challenge", request.challenge)
    /\ (env.FEISHU_VERIFICATION_TOKEN # "" /\ request.token # env.FEISHU_VERIFICATION_TOKEN) =>
         /\ response.status = 403
         /\ response.kind = "error"
         /\ response.value # request.challenge
    /\ NoTaskFor(request)

\* A URL verification that has the members of a file message too was
\* answered with its challenge, the token being the configured one.
C16_Witness ==
  /\ request = UrlVerificationWithEvent(GoodToken)
  /\ env.FEISHU_VERIFICATION_TOKEN = GoodToken
  /\ response = JsonResponse(200, "challenge", Challenge)

\* C17: a message event whose header token differs from the configured one
\* was answered 403 and no staging task or run was dispatched for it (tasks
\* alone write to the bucket, delete from it and reply).
C17_BadTokenRejected ==
  (IsMessageEvent(request) /\ ~TokenAccepted(request)) =>
    /\ response = JsonResponse(403, "error", "Invalid token")
    /\ NoTaskFor(request)

\* A file message with a wrong header token was rejected while a file is
\* staged.
C17_Witness ==
  /\ request = MessageEvent(BadToken, "file", Chat1, "m6", "object", << >>, Name_a, "fk6")
  /\ response.status = 403
  /\ bucket # {}

\* A correctly tokened file message whose content parsed and names the
\* attachment.
IsNamedFileMessage(p) ==
  /\ IsMessageEvent(p) /\ TokenAccepted(p)
  /\ p.hasEvent /\ p.hasMessage
  /\ p.message_type = "file" /\ p.content_parse = "object" /\ p.file_name # << >>

\* C18: every staging task's file name ends in .pdf, whatever the case; a
\* file message with a key whose name ends so was staged; one whose name
\* does not was answered {ok: true} and no task was dispatched for it.
C18_OnlyPdfStaged ==
  /\ \A s \in Stagers : endsWith(toLowerCase(stagers[s].fileName), Str_pdf)
  /\ IsNamedFileMessage(request) =>
       IF endsWith(toLowerCase(request.file_name), Str_pdf)
       THEN request.file_key # "" =>
              \E s \in Stagers : /\ stagers[s].messageId = request.message_id
                                  /\ stagers[s].fileName = request.file_name
       ELSE response = Ok /\ NoTaskFor(request)

\* b_x.PDF was staged, and a file message naming n.txt was then answered
\* {ok: true}.
C18_Witness ==
  /\ request = FileEvent(Chat1, "m14", Name_txt, "fk14")
  /\ response = Ok
  /\ \E s \in Stored : stagers[s].fileName = Name_bX
  /\ Len(stagers) = 1

\* C19: the file name a run derives from the key of a file it fetched is the
\* file name the staging task that stored the file was given.
C19_FileNameRoundTrip ==
  \A r \in Runs : \A i \in 1..Len(runs[r].fileNames) :
    \A s \in Stored :
      stagers[s].objectKey = runs[r].pdfs[i].key =>
        runs[r].fileNames[i] = stagers[s].fileName

\* The stage of section 4.3 a call belongs to, in the order of the code.
StageOf(op) ==
  CASE op = "replyProgress" -> 1
    [] op = "list" -> 2
    [] op \in {"get", "upload", "replyEmpty"} -> 3
    [] op = "llm" -> 4
    [] op = "docCreate" -> 5
    [] op = "docWrite" -> 6
    [] op = "delete" -> 7
    [] op = "replySuccess" -> 8
    [] OTHER -> 9

\* Every call b of the run comes after a call a.
Precedes(run, a, b) ==
  \A j \in 1..Len(run.log) : run.log[j].op = b => \E i \in 1..(j - 1) : run.log[i].op = a

\* C20: the calls of a run are made in stage order (progress notice, list,
\* gets and uploads, summarization, document creation, content write,
\* deletes, success reply; the failure reply last), each one-call stage at
\* most once and never without the stage before it, and the run awaits one
\* call at a time.
C20_StageOrder ==
  \A r \in Runs :
    LET run == runs[r] IN
    /\ \A i, j \in 1..Len(run.log) :
         i < j => StageOf(run.log[i].op) <= StageOf(run.log[j].op)
    /\ \A op \in {"replyProgress", "list", "llm", "docCreate", "docWrite",
                   "replySuccess", "replyEmpty", "replyFailure"} :
         Len(Calls(run, {op})) <= 1
    /\ Precedes(run, "replyProgress", "list")
    /\ Precedes(run, "list", "get")
    /\ Precedes(run, "get", "upload")
    /\ Precedes(run, "list", "llm")
    /\ Precedes(run, "llm", "docCreate")
    /\ Precedes(run, "docCreate", "docWrite")
    /\ Precedes(run, "docWrite", "delete")
    /\ Precedes(run, "docWrite", "replySuccess")
    /\ Made(run, "llm") => Len(Calls(run, {"upload"})) = Len(run.fileIds)
    /\ run.pc \in {"token", "progress", "list", "replyEmpty", "get", "upload", "llm",
                    "docCreate", "docWrite", "delete", "replySuccess", "catch", "done"}

\* A run over two staged files has sent its success reply: two uploads,
\* the summary, the document, two deletes.
C20_Witness ==
  \E r \in Runs :
    /\ Succeeded(runs[r])
    /\ Len(Calls(runs[r], {"upload"})) = 2
    /\ Len(Calls(runs[r], {"delete"})) = 2

\* C21: once the summarization request was answered OK the run has a
\* summary, the answer's content or else the placeholder; with the
\* placeholder the run has gone on to the document creation, the document
\* written carries the placeholder, and a run that met no later failure has
\* ended with the success reply after deleting every gathered file.
C21_PlaceholderSummary ==
  \A r \in Runs :
    LET run == runs[r] IN
    (Made(run, "llm") /\ run.err \notin {"llm:notok", "llm:throw"}) =>
      /\ run.summary \in {"content", "placeholder"}
      /\ run.summary = "placeholder" =>
           /\ run.pc \in {"docCreate", "docWrite", "delete", "replySuccess", "catch", "done"}
           /\ run.pc = "catch" => run.err \notin {"none", "list", "get"}
           /\ (run.pc = "done" /\ run.err = "none") =>
                (Succeeded(run) /\ Len(KeysCalled(run, "delete")) = Len(run.pdfs))
           /\ run.writeData = "ok" =>
                \E d \in docs : d.id = run.documentId /\ d.content = "placeholder"

\* A run whose summarization answer had no content has ended with the
\* success reply, its document carrying the placeholder.
C21_Witness ==
  \E r \in Runs :
    /\ runs[r].summary = "placeholder"
    /\ Succeeded(runs[r])
    /\ \E d \in docs : d.id = runs[r].documentId /\ d.content = "placeholder"
    /\ Keys(bucket) \cap PdfKeys(runs[r]) = {}

\* C22: no run waits for or yields to another: what a run gathers is exactly
\* the .pdf objects of its conversation that the bucket held when the run
\* listed it, whatever other runs of the conversation are doing, and it
\* replies 'nothing to process' exactly when that set is empty.
C22_RunsListIndependently ==
  \A r \in Runs :
    /\ PdfKeys(runs[r]) = StagedAtList(runs[r])
    /\ (Made(runs[r], "list") /\ runs[r].err # "list") =>
         ((runs[r].pc = "replyEmpty" \/ Made(runs[r], "replyEmpty"))
            <=> StagedAtList(runs[r]) = {})

\* Two runs of one conversation have gathered the same file, have each
\* uploaded it, created a document of their own and sent the success reply;
\* a third run listed after the cleanup and replied 'nothing to process'.
C22_Witness ==
  \E r1, r2, r3 \in Runs :
    /\ r1 # r2
    /\ runs[r1].chat_id = runs[r2].chat_id /\ runs[r2].chat_id = runs[r3].chat_id
    /\ PdfKeys(runs[r1]) # {} /\ PdfKeys(runs[r1]) = PdfKeys(runs[r2])
    /\ Len(Calls(runs[r1], {"upload"})) = Len(runs[r1].pdfs)
    /\ Len(Calls(runs[r2], {"upload"})) = Len(runs[r2].pdfs)
    /\ runs[r1].documentId # 0 /\ runs[r2].documentId # 0
    /\ runs[r1].documentId # runs[r2].documentId
    /\ Succeeded(runs[r1]) /\ Succeeded(runs[r2])
    /\ DeletedBy(r1) = PdfKeys(runs[r1])
    /\ runs[r3].pc = "done" /\ LastOp(runs[r3]) = "replyEmpty"

\* A correctly tokened text message whose content did not parse to null.
IsTextMessage(p) ==
  /\ IsMessageEvent(p) /\ TokenAccepted(p)
  /\ p.hasEvent /\ p.hasMessage
  /\ p.message_type = "text" /\ p.content_parse # "null"

\* contentObj.text || '': the text the handler searches.
DecodedText(p) == IF p.content_parse = "object" THEN p.text ELSE << >>

\* C23: a run was dispatched for a delivered text message exactly when its
\* decoded text contains '整理 PDF' or '分析合同' letter for letter; the
\* deliveries have dispatched at most one task each; every run was
\* dispatched for a text message and every staging task for a file message.
C23_TriggerIffPhrase ==
  /\ IsTextMessage(request) =>
       ((\E r \in Runs : runs[r].message_id = request.message_id)
          <=> (includes(DecodedText(request), Str_trigger1)
                 \/ includes(DecodedText(request), Str_trigger2)))
  /\ Len(stagers) + Len(runs) <= events
  /\ \A p \in WebhookPayloads :
       /\ (\E r \in Runs : runs[r].message_id = p.message_id) => p.message_type = "text"
       /\ (\E s \in Stagers : stagers[s].messageId = p.message_id) => p.message_type = "file"

\* A run was dispatched for '整理 PDF', and the text '整理 pdf' was then
\* answered {ok: true} without a task.
C23_Witness ==
  /\ request = TextEvent(Chat1, "m22", toLowerCase(Str_trigger1))
  /\ response = Ok
  /\ NoTaskFor(request)
  /\ \E r \in Runs : runs[r].message_id = "m4"

\* C24: a run that acquired its token and has returned has attempted exactly
\* one of the three outcome replies ('nothing to process', success,
\* failure), and never both the success and the failure reply.
C24_OneOutcomeReply ==
  \A r \in Runs :
    (runs[r].pc = "done" /\ Made(runs[r], "replyProgress")) =>
      /\ Len(Calls(runs[r], {"replyEmpty", "replySuccess", "replyFailure"})) = 1
      /\ ~(Made(runs[r], "replySuccess") /\ Made(runs[r], "replyFailure"))

\* C25: however often a file message is delivered, the bucket holds at most
\* one object for its attachment, and no run has gathered the attachment
\* twice.
C25_StagingIdempotent ==
  /\ \A o, q \in bucket : o.body = q.body => o.key = q.key
  /\ \A r \in Runs : \A i, j \in 1..Len(runs[r].pdfs) :
       runs[r].pdfs[i].body = runs[r].pdfs[j].body => i = j

====
